---- MODULE Spec2Model ----
(***************************************************************************)
(* Selector extractor (dist/index.js, compiled from the TypeScript source). *)
(*                                                                         *)
(* A JavaScript string is modelled as a sequence of one-character strings, *)
(* so length, concatenation and equality are those of the program.  An     *)
(* attribute that is absent (getAttribute returns null) and one that is    *)
(* empty are both the empty sequence: the code only tests them for         *)
(* truthiness.                                                             *)
(***************************************************************************)
EXTENDS Integers, Sequences, FiniteSets, TLC

VARIABLES
    pc,          \* the statement extractSelectors is at
    browserOpen, \* a launched browser has not been closed
    closeCalls,  \* number of browser.close() calls
    calls,       \* the collaborator operations invoked so far, in order
    failed,      \* the operation that failed, "none" if none did
    outcome,     \* "pending", "returned" or "rejected"
    returned,    \* <<value>> of the return statement executed, else << >>
    doc,         \* document.querySelectorAll('*') of the loaded page
    index,       \* the traversal's index
    ids, testIds, names, roles, text, all, pageObj,
    sel, keyBase, prop,  \* the locals of the last iteration
    groups       \* <<value>> page.evaluate resolved with, else << >>

vars == <<pc, browserOpen, closeCalls, calls, failed, outcome, returned,
          doc, index, ids, testIds, names, roles, text, all, pageObj,
          sel, keyBase, prop, groups>>

(***************************************************************************)
(* Bounds and program constants                                            *)
(***************************************************************************)
MaxElems == 3

Cutoff == 30

KeyWords == 3

(***************************************************************************)
(* String primitives of the JavaScript runtime used by the traversal       *)
(***************************************************************************)
Lowers == <<"a","b","c","d","e","f","g","h","i","j","k","l","m",
            "n","o","p","q","r","s","t","u","v","w","x","y","z">>

Uppers == <<"A","B","C","D","E","F","G","H","I","J","K","L","M",
            "N","O","P","Q","R","S","T","U","V","W","X","Y","Z">>

DigitChars == <<"0","1","2","3","4","5","6","7","8","9">>

Whitespace == {" ", "\n", "\t"}

LineTerminators == {"\n"}

toLowerCaseChar(c) ==
    IF \E i \in 1..26 : Uppers[i] = c
    THEN Lowers[CHOOSE i \in 1..26 : Uppers[i] = c]
    ELSE c

toUpperCaseChar(c) ==
    IF \E i \in 1..26 : Lowers[i] = c
    THEN Uppers[CHOOSE i \in 1..26 : Lowers[i] = c]
    ELSE c

toLowerCase(s) == [i \in 1..Len(s) |-> toLowerCaseChar(s[i])]

\* the character class [a-z0-9] of the camel regular expression
IsLowerAlnum(c) ==
    \/ \E i \in 1..26 : Lowers[i] = c
    \/ \E i \in 1..10 : DigitChars[i] = c

RECURSIVE trimStart(_)
trimStart(s) ==
    IF s # <<>> /\ Head(s) \in Whitespace THEN trimStart(Tail(s)) ELSE s

RECURSIVE trimEnd(_)
trimEnd(s) ==
    IF s # <<>> /\ s[Len(s)] \in Whitespace
    THEN trimEnd(SubSeq(s, 1, Len(s) - 1))
    ELSE s

trim(s) == trimEnd(trimStart(s))

RECURSIVE dropNewlines(_)
dropNewlines(s) ==
    IF s # <<>> /\ Head(s) = "\n" THEN dropNewlines(Tail(s)) ELSE s

\* variant: the pattern without its +, one space for every newline
RECURSIVE replaceEachNewline(_)
replaceEachNewline(s) ==
    IF s = <<>> THEN <<>>
    ELSE IF Head(s) = "\n"
         THEN <<" ">> \o replaceEachNewline(Tail(s))
         ELSE <<Head(s)>> \o replaceEachNewline(Tail(s))

\* str.replace(/\n+/g, ' ')
RECURSIVE replaceNewlines(_)
replaceNewlines(s) ==
    IF s = <<>> THEN <<>>
    ELSE IF Head(s) = "\n"
         THEN <<" ">> \o replaceNewlines(dropNewlines(s))
         ELSE <<Head(s)>> \o replaceNewlines(Tail(s))

\* str.split(' '): the pieces between single spaces, empty pieces included
RECURSIVE split(_)
split(s) ==
    IF \E i \in 1..Len(s) : s[i] = " "
    THEN LET i == CHOOSE j \in 1..Len(s) :
                      s[j] = " " /\ \A k \in 1..(j - 1) : s[k] # " "
         IN  <<SubSeq(s, 1, i - 1)>> \o split(SubSeq(s, i + 1, Len(s)))
    ELSE <<s>>

\* arr.join(' ')
RECURSIVE join(_)
join(parts) ==
    IF parts = <<>> THEN <<>>
    ELSE IF Len(parts) = 1 THEN parts[1]
         ELSE parts[1] \o <<" ">> \o join(Tail(parts))

\* arr.slice(0, n)
slice(arr, n) == SubSeq(arr, 1, IF Len(arr) < n THEN Len(arr) ELSE n)

\* decimal rendering of a non-negative integer inside a template literal
RECURSIVE itoa(_)
itoa(n) ==
    IF n < 10 THEN <<DigitChars[n + 1]>>
    ELSE itoa(n \div 10) \o <<DigitChars[(n % 10) + 1]>>

\* first-three-words key base: s.split(' ').slice(0, 3).join(' ')
firstWords(s) == join(slice(split(s), KeyWords))

(***************************************************************************)
(* camel: str.toLowerCase().replace(/[^a-z0-9]+(.)/g, (_, c) => upper(c))  *)
(* The run [^a-z0-9]+ is greedy and backtracks; '.' matches any character  *)
(* but a line terminator.                                                  *)
(***************************************************************************)
\* index just past the maximal run of non-alphanumerics starting at i
RECURSIVE runEnd(_, _)
runEnd(s, i) ==
    IF i <= Len(s) /\ ~IsLowerAlnum(s[i]) THEN runEnd(s, i + 1) ELSE i

\* position of the captured character of a match starting at i, 0 if none
captureAt(s, i) ==
    IF i > Len(s) \/ IsLowerAlnum(s[i]) THEN 0
    ELSE LET e == runEnd(s, i) IN
         IF e <= Len(s) THEN e
         ELSE LET cands == {k \in (i + 1)..Len(s) : s[k] \notin LineTerminators}
              IN  IF cands = {} THEN 0
                  ELSE CHOOSE k \in cands : \A m \in cands : m <= k

RECURSIVE camelFrom(_, _)
camelFrom(s, i) ==
    IF i > Len(s) THEN <<>>
    ELSE LET c == captureAt(s, i) IN
         IF c = 0 THEN <<s[i]>> \o camelFrom(s, i + 1)
         ELSE <<toUpperCaseChar(s[c])>> \o camelFrom(s, c + 1)

camel(str) == camelFrom(toLowerCase(str), 1)

(***************************************************************************)
(* Element descriptors.  tagName is the upper-case DOM tagName; html is    *)
(* FALSE for an element that is not an HTMLElement (an SVG element), whose *)
(* innerText is undefined, so that el.innerText.trim() throws a TypeError. *)
(***************************************************************************)
El(tag, id, testid, name, role, ariaLabel, type, html, innerText) ==
    [tagName |-> tag, id |-> id, testid |-> testid, name |-> name,
     role |-> role, ariaLabel |-> ariaLabel, type |-> type,
     html |-> html, innerText |-> innerText]

defaultRole(el) ==
    LET tag == toLowerCase(el.tagName) IN
    IF tag = <<"a">> THEN <<"l","i","n","k">>
    ELSE IF tag = <<"b","u","t","t","o","n">> THEN <<"b","u","t","t","o","n">>
    ELSE IF tag = <<"s","e","l","e","c","t">>
         THEN <<"c","o","m","b","o","b","o","x">>
    ELSE IF tag = <<"o","p","t","i","o","n">> THEN <<"o","p","t","i","o","n">>
    ELSE IF tag = <<"i","n","p","u","t">>
         THEN LET type == toLowerCase(el.type) IN
              IF type = <<"c","h","e","c","k","b","o","x">>
              THEN <<"c","h","e","c","k","b","o","x">>
              ELSE IF type = <<"r","a","d","i","o">> THEN <<"r","a","d","i","o">>
              ELSE IF type = <<"s","u","b","m","i","t">>
                      \/ type = <<"b","u","t","t","o","n">>
                   THEN <<"b","u","t","t","o","n">>
              ELSE <<"t","e","x","t","b","o","x">>
    ELSE <<>>

\* the result of classifying one element: the array the selector is pushed
\* to ("none" when sel stays ''), sel, keyBase, and whether the body threw
Classified(strategy, s, kb) ==
    [strategy |-> strategy, sel |-> s, keyBase |-> kb, threw |-> FALSE]

Thrown == [strategy |-> "none", sel |-> <<>>, keyBase |-> <<>>, threw |-> TRUE]

\* variant: the cutoff taken inclusively (<= 30)
underCutoffInclusive(s) == s # <<>> /\ Len(s) <= Cutoff

\* label && label.length < 30  /  innerText && innerText.length < 30
underCutoff(s) == s # <<>> /\ Len(s) < Cutoff

textBranch(el) ==
    IF ~el.html THEN Thrown
    ELSE LET innerText == trim(el.innerText) IN
         IF underCutoff(innerText)
         THEN LET trimmed == trim(replaceNewlines(innerText)) IN
              Classified("text",
                  toLowerCase(el.tagName)
                      \o <<":","h","a","s","-","t","e","x","t","(","\"">>
                      \o trimmed \o <<"\"",")">>,
                  firstWords(trimmed))
         ELSE Classified("none", <<>>, <<>>)

\* variant: a role without a usable label falls through to the text test
roleBranchFallsThrough(el, role) ==
    IF el.ariaLabel = <<>> /\ ~el.html THEN Thrown
    ELSE LET label == IF el.ariaLabel # <<>> THEN el.ariaLabel
                      ELSE trim(el.innerText)
         IN  IF underCutoff(label)
             THEN LET safe == trim(replaceNewlines(label)) IN
                  Classified("roles",
                      <<"r","o","l","e","=">> \o role
                          \o <<"[","n","a","m","e","=","\"">> \o safe
                          \o <<"\"","]">>,
                      firstWords(safe))
             ELSE textBranch(el)

\* variant: the length test made on the collapsed label
roleBranchCollapseFirst(el, role) ==
    IF el.ariaLabel = <<>> /\ ~el.html THEN Thrown
    ELSE LET label == IF el.ariaLabel # <<>> THEN el.ariaLabel
                      ELSE trim(el.innerText)
             safe == trim(replaceNewlines(label))
         IN  IF underCutoff(safe)
             THEN Classified("roles",
                      <<"r","o","l","e","=">> \o role
                          \o <<"[","n","a","m","e","=","\"">> \o safe
                          \o <<"\"","]">>,
                      firstWords(safe))
             ELSE Classified("roles", <<"r","o","l","e","=">> \o role, role)

roleBranch(el, role) ==
    IF el.ariaLabel = <<>> /\ ~el.html THEN Thrown
    ELSE LET label == IF el.ariaLabel # <<>> THEN el.ariaLabel
                      ELSE trim(el.innerText)
         IN  IF underCutoff(label)
             THEN LET safe == trim(replaceNewlines(label)) IN
                  Classified("roles",
                      <<"r","o","l","e","=">> \o role
                          \o <<"[","n","a","m","e","=","\"">> \o safe
                          \o <<"\"","]">>,
                      firstWords(safe))
             ELSE Classified("roles", <<"r","o","l","e","=">> \o role, role)

\* variant: the data-testid test placed before the id test
classifyTestIdFirst(el) ==
    IF el.testid # <<>>
    THEN Classified("testIds",
             <<"[","d","a","t","a","-","t","e","s","t","i","d","=","\"">>
                 \o el.testid \o <<"\"","]">>,
             el.testid)
    ELSE IF el.id # <<>>
    THEN Classified("ids", <<"#">> \o el.id, el.id)
    ELSE IF el.name # <<>>
    THEN Classified("names",
             toLowerCase(el.tagName) \o <<"[","n","a","m","e","=","\"">>
                 \o el.name \o <<"\"","]">>,
             el.name)
    ELSE LET role == IF el.role # <<>> THEN el.role ELSE defaultRole(el) IN
         IF role # <<>> THEN roleBranch(el, role) ELSE textBranch(el)

\* the body of the traversal loop up to `if (sel)`
classify(el) ==
    IF el.id # <<>>
    THEN Classified("ids", <<"#">> \o el.id, el.id)
    ELSE IF el.testid # <<>>
    THEN Classified("testIds",
             <<"[","d","a","t","a","-","t","e","s","t","i","d","=","\"">>
                 \o el.testid \o <<"\"","]">>,
             el.testid)
    ELSE IF el.name # <<>>
    THEN Classified("names",
             toLowerCase(el.tagName) \o <<"[","n","a","m","e","=","\"">>
                 \o el.name \o <<"\"","]">>,
             el.name)
    ELSE LET role == IF el.role # <<>> THEN el.role ELSE defaultRole(el) IN
         IF role # <<>> THEN roleBranch(el, role) ELSE textBranch(el)

(***************************************************************************)
(* The page object: a sequence of <<key, selector>> pairs in insertion     *)
(* order.  pageObj is an object literal, so a lookup pageObj[prop] also    *)
(* finds the (truthy) members inherited from Object.prototype.             *)
(***************************************************************************)
ObjectPrototypeKeys ==
    { <<"c","o","n","s","t","r","u","c","t","o","r">>,
      <<"t","o","S","t","r","i","n","g">>,
      <<"v","a","l","u","e","O","f">> }

ownKeys(po) == {po[i][1] : i \in 1..Len(po)}

\* the truthiness of pageObj[prop]: stored selectors are never empty
lookup(po, p) == p \in ownKeys(po) \/ p \in ObjectPrototypeKeys

\* variant: the key is taken as it is, without the while loop
suffixLoopSkipped(po, p, suffix) == p

\* while (pageObj[prop]) { prop = `${prop}${suffix++}`; }
RECURSIVE suffixLoop(_, _, _)
suffixLoop(po, p, suffix) ==
    IF lookup(po, p)
    THEN suffixLoop(po, p \o itoa(suffix), suffix + 1)
    ELSE p

\* pageObj[prop] = sel
assign(po, p, s) ==
    IF p \in ownKeys(po)
    THEN [i \in 1..Len(po) |-> IF po[i][1] = p THEN <<p, s>> ELSE po[i]]
    ELSE Append(po, <<p, s>>)

(***************************************************************************)
(* The order in which the keys of pageObj are enumerated (JSON.stringify,  *)
(* Object.keys, the transfer of the result out of the page): pageObj is an *)
(* ordinary object, so its array-index keys, the canonical decimal strings *)
(* of the integers 0 .. 2^32 - 2, come first in ascending numeric order    *)
(* and the other keys follow in the order of their creation.               *)
(***************************************************************************)
digitValue(c) == (CHOOSE i \in 1..10 : DigitChars[i] = c) - 1

isDigits(p) ==
    p # <<>> /\ \A i \in 1..Len(p) : \E j \in 1..10 : DigitChars[j] = p[i]

\* numeric order of two digit strings of the same length
RECURSIVE digitsLess(_, _)
digitsLess(p, q) ==
    IF p = <<>> THEN FALSE
    ELSE IF Head(p) = Head(q) THEN digitsLess(Tail(p), Tail(q))
    ELSE digitValue(Head(p)) < digitValue(Head(q))

\* numeric order of two canonical decimal strings
indexLess(p, q) == Len(p) < Len(q) \/ (Len(p) = Len(q) /\ digitsLess(p, q))

\* 2^32 - 2, the largest array index
MaxArrayIndex == <<"4","2","9","4","9","6","7","2","9","4">>

isArrayIndex(p) ==
    /\ isDigits(p)
    /\ Len(p) = 1 \/ p[1] # "0"
    /\ ~indexLess(MaxArrayIndex, p)

isNamedKey(p) == ~isArrayIndex(p)

RECURSIVE insertAscending(_, _)
insertAscending(sorted, p) ==
    IF sorted = <<>> THEN <<p>>
    ELSE IF indexLess(p, Head(sorted)) THEN <<p>> \o sorted
    ELSE <<Head(sorted)>> \o insertAscending(Tail(sorted), p)

RECURSIVE ascending(_)
ascending(keys) ==
    IF keys = <<>> THEN <<>>
    ELSE insertAscending(ascending(Tail(keys)), Head(keys))

\* the keys in the order of their creation
createdKeys(po) == [i \in 1..Len(po) |-> po[i][1]]

\* variant: every key enumerated in the order of its creation, as the keys
\* of a Map are
ownPropertyKeysAsCreated(po) == createdKeys(po)

\* [[OwnPropertyKeys]] of the ordinary object pageObj
ownPropertyKeys(po) ==
    ascending(SelectSeq(createdKeys(po), isArrayIndex))
        \o SelectSeq(createdKeys(po), isNamedKey)

\* pageObj as its enumeration presents it: Object.entries(pageObj)
entries(po) ==
    LET keys == ownPropertyKeys(po) IN
    [i \in 1..Len(keys) |->
        po[CHOOSE j \in 1..Len(po) : po[j][1] = keys[i]]]

\* the key base handed to camel: keyBase || `${tag}${index}`
keyCandidate(el, kb, i) ==
    IF kb # <<>> THEN kb ELSE toLowerCase(el.tagName) \o itoa(i)

\* let prop = camel(...); let suffix = 1; while ...
propFor(po, el, kb, i) == suffixLoop(po, camel(keyCandidate(el, kb, i)), 1)

\* variant: the last occurrence of each value is the one kept
RECURSIVE uniqueKeepLast(_)
uniqueKeepLast(arr) ==
    IF arr = <<>> THEN <<>>
    ELSE LET rest == uniqueKeepLast(Tail(arr)) IN
         IF \E i \in 1..Len(rest) : rest[i] = Head(arr) THEN rest
         ELSE <<Head(arr)>> \o rest

\* variant: deduplication through join/split, which turns [] into ['']
RECURSIVE uniqueViaJoin(_)
uniqueViaJoin(arr) ==
    IF arr = <<>> THEN << <<>> >>
    ELSE IF Len(arr) = 1 THEN arr
    ELSE LET init == uniqueViaJoin(SubSeq(arr, 1, Len(arr) - 1))
             last == arr[Len(arr)]
         IN  IF \E i \in 1..Len(init) : init[i] = last THEN init
             ELSE Append(init, last)

\* Array.from(new Set(arr)): first occurrences, in order
RECURSIVE unique(_)
unique(arr) ==
    IF arr = <<>> THEN <<>>
    ELSE LET init == unique(SubSeq(arr, 1, Len(arr) - 1))
             last == arr[Len(arr)]
         IN  IF \E i \in 1..Len(init) : init[i] = last THEN init
             ELSE Append(init, last)

EmptyResult ==
    [ids |-> <<>>, testIds |-> <<>>, names |-> <<>>, roles |-> <<>>,
     text |-> <<>>, all |-> <<>>, pageObject |-> <<>>]

\* variant: `all` returned as accumulated, without deduplication
groupedAllRaw(i, t, n, r, x, a, po) ==
    [ids |-> unique(i), testIds |-> unique(t), names |-> unique(n),
     roles |-> unique(r), text |-> unique(x), all |-> a,
     pageObject |-> entries(po)]

\* the object returned by the in-page function
grouped(i, t, n, r, x, a, po) ==
    [ids |-> unique(i), testIds |-> unique(t), names |-> unique(n),
     roles |-> unique(r), text |-> unique(x), all |-> unique(a),
     pageObject |-> entries(po)]

(***************************************************************************)
(* Documents the navigation may load                                       *)
(***************************************************************************)
Rep(c, n) == [i \in 1..n |-> c]

ElMain ==
    El(<<"D","I","V">>, <<"m","a","i","n">>, <<>>, <<>>, <<>>, <<>>, <<>>,
       TRUE, <<>>)

ElHeader ==
    El(<<"D","I","V">>, <<>>, <<"h","e","a","d","e","r">>, <<>>, <<>>, <<>>,
       <<>>, TRUE, <<"H","e","a","d","e","r">>)

ElSearch ==
    El(<<"I","N","P","U","T">>, <<>>, <<>>, <<"s","e","a","r","c","h">>, <<>>,
       <<>>, <<>>, TRUE, <<>>)

ElSubmit ==
    El(<<"B","U","T","T","O","N">>, <<>>, <<>>, <<>>, <<>>, <<>>, <<>>,
       TRUE, <<"S","u","b","m","i","t">>)

\* every strategy's condition holds at once; its key base collides with
\* the one of ElSubmit
ElEvery ==
    El(<<"B","U","T","T","O","N">>, <<"s","u","b","m","i","t">>,
       <<"h","e","a","d","e","r">>, <<"s","e","a","r","c","h">>,
       <<"t","a","b">>, <<"S","u","b","m","i","t">>, <<>>,
       TRUE, <<" ","S","u","b","m","i","t","\n">>)

ElText29 ==
    El(<<"S","P","A","N">>, <<>>, <<>>, <<>>, <<>>, <<>>, <<>>,
       TRUE, <<" ">> \o Rep("x", Cutoff - 1) \o <<"\n">>)

ElText30 ==
    El(<<"S","P","A","N">>, <<>>, <<>>, <<>>, <<>>, <<>>, <<>>,
       TRUE, Rep("x", Cutoff))

ElLabel29 ==
    El(<<"A">>, <<>>, <<>>, <<>>, <<>>, Rep("y", Cutoff - 1), <<>>,
       TRUE, <<"g","o">>)

ElLabel30 ==
    El(<<"B","U","T","T","O","N">>, <<>>, <<>>, <<>>, <<>>, <<>>, <<>>,
       TRUE, Rep("y", Cutoff))

ElSvg ==
    El(<<"s","v","g">>, <<>>, <<>>, <<>>, <<>>, <<>>, <<>>, FALSE, <<>>)

\* its key is the name of a member every object literal inherits
ElCtor ==
    El(<<"D","I","V">>, <<"c","o","n","s","t","r","u","c","t","o","r">>,
       <<>>, <<>>, <<>>, <<>>, <<>>, TRUE, <<>>)

Pool == {ElMain, ElHeader, ElSearch, ElSubmit, ElEvery, ElText29, ElText30,
         ElLabel29, ElLabel30, ElSvg, ElCtor}

\* the document of the README's example output
ReadmeDoc == <<ElMain, ElHeader, ElSearch, ElSubmit>>

DocsOver(pool) == UNION {[1..n -> pool] : n \in 0..MaxElems}

Docs == DocsOver(Pool) \cup {ReadmeDoc}

(***************************************************************************)
(* extractSelectors(url)                                                   *)
(***************************************************************************)
Init ==
    /\ pc = "launch"
    /\ browserOpen = FALSE
    /\ closeCalls = 0
    /\ calls = <<>>
    /\ failed = "none"
    /\ outcome = "pending"
    /\ returned = <<>>
    /\ doc = <<>>
    /\ index = 0
    /\ ids = <<>> /\ testIds = <<>> /\ names = <<>>
    /\ roles = <<>> /\ text = <<>> /\ all = <<>>
    /\ pageObj = <<>>
    /\ sel = <<>> /\ keyBase = <<>> /\ prop = <<>>
    /\ groups = <<>>

page == <<doc, index, ids, testIds, names, roles, text, all, pageObj,
          sel, keyBase, prop, groups>>

\* const browser = await chromium.launch();
Launch ==
    /\ pc = "launch"
    /\ calls' = Append(calls, "launch")
    /\ browserOpen' = TRUE
    /\ pc' = "newPage"
    /\ UNCHANGED <<closeCalls, failed, outcome, returned, page>>

LaunchFails ==
    /\ pc = "launch"
    /\ calls' = Append(calls, "launch")
    /\ failed' = "launch"
    /\ outcome' = "rejected"
    /\ pc' = "done"
    /\ UNCHANGED <<browserOpen, closeCalls, returned, page>>

\* const page = await browser.newPage();   (outside the try block)
NewPage ==
    /\ pc = "newPage"
    /\ calls' = Append(calls, "newPage")
    /\ pc' = "goto"
    /\ UNCHANGED <<browserOpen, closeCalls, failed, outcome, returned, page>>

NewPageFails ==
    /\ pc = "newPage"
    /\ calls' = Append(calls, "newPage")
    /\ failed' = "newPage"
    /\ outcome' = "rejected"
    /\ pc' = "done"
    /\ UNCHANGED <<browserOpen, closeCalls, returned, page>>

\* await page.goto(url); the in-page function then starts with empty arrays
Goto(D) ==
    /\ pc = "goto"
    /\ calls' = Append(calls, "goto")
    /\ \E d \in D : doc' = d
    /\ pc' = "evaluate"
    /\ UNCHANGED <<browserOpen, closeCalls, failed, outcome, returned, index,
                   ids, testIds, names, roles, text, all, pageObj,
                   sel, keyBase, prop, groups>>

\* variant: a failed navigation is attempted again
GotoFailsRetried ==
    /\ pc = "goto"
    /\ Len(calls) < 4
    /\ calls' = Append(calls, "goto")
    /\ UNCHANGED <<pc, browserOpen, closeCalls, failed, outcome, returned,
                   page>>

GotoFails ==
    /\ pc = "goto"
    /\ calls' = Append(calls, "goto")
    /\ failed' = "goto"
    /\ pc' = "catch"
    /\ UNCHANGED <<browserOpen, closeCalls, outcome, returned, page>>

\* page.evaluate is invoked
EvaluateStart ==
    /\ pc = "evaluate"
    /\ calls' = Append(calls, "evaluate")
    /\ pc' = "loop"
    /\ UNCHANGED <<browserOpen, closeCalls, failed, outcome, returned, page>>

\* for (const el of elements)
hasNext(d, i) == i < Len(d)

push(arr, name, c) == IF c.strategy = name THEN Append(arr, c.sel) ELSE arr

\* one iteration of the traversal loop
Step ==
    /\ pc = "loop"
    /\ hasNext(doc, index)
    /\ LET el == doc[index + 1]
           c  == classify(el)
       IN  IF c.threw
           THEN /\ failed' = "typeError"
                /\ pc' = "catch"
                /\ sel' = <<>> /\ keyBase' = <<>> /\ prop' = <<>>
                /\ UNCHANGED <<index, ids, testIds, names, roles, text, all,
                               pageObj>>
           ELSE /\ sel' = c.sel
                /\ keyBase' = c.keyBase
                /\ prop' = IF c.sel # <<>>
                           THEN propFor(pageObj, el, c.keyBase, index)
                           ELSE <<>>
                /\ ids' = push(ids, "ids", c)
                /\ testIds' = push(testIds, "testIds", c)
                /\ names' = push(names, "names", c)
                /\ roles' = push(roles, "roles", c)
                /\ text' = push(text, "text", c)
                /\ all' = IF c.sel # <<>> THEN Append(all, c.sel) ELSE all
                /\ pageObj' = IF c.sel # <<>>
                              THEN assign(pageObj, prop', c.sel)
                              ELSE pageObj
                /\ index' = index + 1
                /\ UNCHANGED <<failed, pc>>
    /\ UNCHANGED <<browserOpen, closeCalls, calls, outcome, returned, doc,
                   groups>>

\* the in-page function returns and evaluate resolves with its value
EvaluateReturns ==
    /\ pc = "loop"
    /\ ~hasNext(doc, index)
    /\ groups' = <<grouped(ids, testIds, names, roles, text, all, pageObj)>>
    /\ pc' = "screenshot"
    /\ UNCHANGED <<browserOpen, closeCalls, calls, failed, outcome, returned,
                   doc, index, ids, testIds, names, roles, text, all, pageObj,
                   sel, keyBase, prop>>

\* the evaluation is rejected by the browser (page crashed or navigated away)
EvaluateFails ==
    /\ pc = "loop"
    /\ failed' = "evaluate"
    /\ pc' = "catch"
    /\ UNCHANGED <<browserOpen, closeCalls, calls, outcome, returned, page>>

\* await page.screenshot(...); return groups;
Screenshot ==
    /\ pc = "screenshot"
    /\ calls' = Append(calls, "screenshot")
    /\ returned' = groups
    /\ pc' = "finally"
    /\ UNCHANGED <<browserOpen, closeCalls, failed, outcome, page>>

ScreenshotFails ==
    /\ pc = "screenshot"
    /\ calls' = Append(calls, "screenshot")
    /\ failed' = "screenshot"
    /\ pc' = "catch"
    /\ UNCHANGED <<browserOpen, closeCalls, outcome, returned, page>>

\* variant: the catch block returns what the traversal had gathered
caughtPartial(i, t, n, r, x, a, po) ==
    [ids |-> i, testIds |-> t, names |-> n, roles |-> r, text |-> x,
     all |-> a, pageObject |-> po]

\* catch { return { ids: [], ..., pageObject: {} }; }
caught(i, t, n, r, x, a, po) == EmptyResult

Catch ==
    /\ pc = "catch"
    /\ returned' = <<caught(ids, testIds, names, roles, text, all, pageObj)>>
    /\ pc' = "finally"
    /\ UNCHANGED <<browserOpen, closeCalls, calls, failed, outcome, page>>

\* finally { await browser.close(); }  then the pending return completes.
\* browser.close() is taken to resolve: it is the release itself, and
\* Playwright resolves it also when the browser has already gone.
Finally ==
    /\ pc = "finally"
    /\ calls' = Append(calls, "close")
    /\ closeCalls' = closeCalls + 1
    /\ browserOpen' = FALSE
    /\ outcome' = "returned"
    /\ pc' = "done"
    /\ UNCHANGED <<failed, returned, page>>

Next ==
    \/ Launch \/ LaunchFails
    \/ NewPage \/ NewPageFails
    \/ Goto(Docs) \/ GotoFails
    \/ EvaluateStart \/ Step \/ EvaluateReturns \/ EvaluateFails
    \/ Screenshot \/ ScreenshotFails
    \/ Catch \/ Finally

Spec == Init /\ [][Next]_vars

(***************************************************************************)
(* Documents with multi-line and blank texts and labels                    *)
(***************************************************************************)
ElTextLines ==
    El(<<"P">>, <<>>, <<>>, <<>>, <<>>, <<>>, <<>>, TRUE,
       <<"\n","H","i","\n","\n","\n","b","i","g","\n","w","o","r","l","d"," ">>)

ElRoleLines ==
    El(<<"B","U","T","T","O","N">>, <<>>, <<>>, <<>>, <<>>, <<>>, <<>>, TRUE,
       <<"S","a","v","e","\n","\n","n","o","w">>)

\* the attribute value, unlike innerText, is not trimmed before the test
ElAriaLines ==
    El(<<"A">>, <<>>, <<>>, <<>>, <<>>,
       <<"\n","G","o","\n","b","a","c","k","\n","\n">>, <<>>, TRUE, <<>>)

\* 32 characters, 6 once the run of newlines is collapsed
LongLines == <<"a","b">> \o Rep("\n", Cutoff - 2) \o <<"c","d">>

ElRoleLongLines ==
    El(<<"B","U","T","T","O","N">>, <<>>, <<>>, <<>>, <<>>, <<>>, <<>>, TRUE,
       LongLines)

ElTextLongLines ==
    El(<<"S","P","A","N">>, <<>>, <<>>, <<>>, <<>>, <<>>, <<>>, TRUE,
       LongLines)

ElBlankAria ==
    El(<<"B","U","T","T","O","N">>, <<>>, <<>>, <<>>, <<>>, <<" "," ">>, <<>>,
       TRUE, <<"O","k">>)

ElBlankRole ==
    El(<<"B","U","T","T","O","N">>, <<>>, <<>>, <<>>, <<>>, <<>>, <<>>, TRUE,
       <<" ","\n"," ">>)

ElBlankText ==
    El(<<"S","P","A","N">>, <<>>, <<>>, <<>>, <<>>, <<>>, <<>>, TRUE,
       <<" ","\n","\t">>)

PoolText == {ElTextLines, ElRoleLines, ElAriaLines, ElRoleLongLines,
             ElTextLongLines, ElBlankAria, ElBlankRole, ElBlankText,
             ElSubmit, ElSvg}

DocsText == DocsOver(PoolText)

NextText ==
    \/ Launch \/ LaunchFails
    \/ NewPage \/ NewPageFails
    \/ Goto(DocsText) \/ GotoFails
    \/ EvaluateStart \/ Step \/ EvaluateReturns \/ EvaluateFails
    \/ Screenshot \/ ScreenshotFails
    \/ Catch \/ Finally

SpecText == Init /\ [][NextText]_vars

(***************************************************************************)
(* Documents with one element for every case of the role inference         *)
(***************************************************************************)
Plain(tag, type, innerText) ==
    El(tag, <<>>, <<>>, <<>>, <<>>, <<>>, type, TRUE, innerText)

ElLink == Plain(<<"A">>, <<>>, <<"H","o","m","e">>)

ElSelect == Plain(<<"S","E","L","E","C","T">>, <<>>, <<"O","n","e","\n","T","w","o">>)

ElOption == Plain(<<"O","P","T","I","O","N">>, <<>>, <<"O","n","e">>)

ElCheckbox ==
    Plain(<<"I","N","P","U","T">>, <<"C","h","e","c","k","b","o","x">>, <<>>)

ElRadio == Plain(<<"I","N","P","U","T">>, <<"r","a","d","i","o">>, <<>>)

ElInputSubmit ==
    Plain(<<"I","N","P","U","T">>, <<"s","u","b","m","i","t">>, <<>>)

ElInputButton ==
    Plain(<<"I","N","P","U","T">>, <<"b","u","t","t","o","n">>, <<>>)

ElInputEmail == Plain(<<"I","N","P","U","T">>, <<"e","m","a","i","l">>, <<>>)

ElInputBare == Plain(<<"I","N","P","U","T">>, <<>>, <<>>)

ElDiv == Plain(<<"D","I","V">>, <<>>, <<"H","o","m","e">>)

\* an explicit role on a tag that has an implicit one
ElSwitch ==
    El(<<"B","U","T","T","O","N">>, <<>>, <<>>, <<>>,
       <<"s","w","i","t","c","h">>, <<"M","u","t","e">>, <<>>, TRUE,
       <<"O","n">>)

\* an explicit role on a tag that has none
ElTab ==
    El(<<"D","I","V">>, <<>>, <<>>, <<>>, <<"t","a","b">>, <<>>, <<>>, TRUE,
       <<>>)

PoolRoles == {ElLink, ElSelect, ElOption, ElCheckbox, ElRadio, ElInputSubmit,
              ElInputButton, ElInputEmail, ElInputBare, ElDiv, ElSwitch,
              ElTab, ElLabel30, ElSvg}

DocsRoles == DocsOver(PoolRoles)

NextRoles ==
    \/ Launch \/ LaunchFails
    \/ NewPage \/ NewPageFails
    \/ Goto(DocsRoles) \/ GotoFails
    \/ EvaluateStart \/ Step \/ EvaluateReturns \/ EvaluateFails
    \/ Screenshot \/ ScreenshotFails
    \/ Catch \/ Finally

SpecRoles == Init /\ [][NextRoles]_vars

(***************************************************************************)
(* Documents whose key bases are numerals or carry punctuation             *)
(***************************************************************************)
WithId(id) ==
    El(<<"D","I","V">>, id, <<>>, <<>>, <<>>, <<>>, <<>>, TRUE, <<>>)

ElSeven == WithId(<<"7">>)

ElTwelve == WithId(<<"1","2">>)

\* a numeral that is not canonical
ElPadded == WithId(<<"0","0","7">>)

ElDash == WithId(<<"f","o","o","-">>)

ElPunct == WithId(<<"-","-">>)

ElZero ==
    El(<<"I","N","P","U","T">>, <<>>, <<>>, <<"0">>, <<>>, <<>>, <<>>, TRUE,
       <<>>)

ElSearchInput ==
    El(<<"I","N","P","U","T">>, <<>>,
       <<"s","e","a","r","c","h"," ","i","n","p","u","t">>, <<>>, <<>>, <<>>,
       <<>>, TRUE, <<>>)

ElBang == Plain(<<"B","U","T","T","O","N">>, <<>>,
                <<"S","u","b","m","i","t","!">>)

PoolKeys == {ElMain, ElSeven, ElTwelve, ElPadded, ElDash, ElPunct, ElZero,
             ElSearchInput, ElBang, ElSubmit, ElSvg}

DocsKeys == DocsOver(PoolKeys)

NextKeys ==
    \/ Launch \/ LaunchFails
    \/ NewPage \/ NewPageFails
    \/ Goto(DocsKeys) \/ GotoFails
    \/ EvaluateStart \/ Step \/ EvaluateReturns \/ EvaluateFails
    \/ Screenshot \/ ScreenshotFails
    \/ Catch \/ Finally

SpecKeys == Init /\ [][NextKeys]_vars

(***************************************************************************)
(* Properties                                                              *)
(***************************************************************************)
Called(op) == \E i \in 1..Len(calls) : calls[i] = op

NoDuplicates(arr) ==
    \A i, j \in 1..Len(arr) : arr[i] = arr[j] => i = j

Values(arr) == {arr[i] : i \in 1..Len(arr)}

\* the condition under which each strategy is the first to apply
Wins(el, strategy) ==
    LET noAttr == el.id = <<>> /\ el.testid = <<>> /\ el.name = <<>>
        hasRole == el.role # <<>> \/ defaultRole(el) # <<>>
    IN  CASE strategy = "ids" -> el.id # <<>>
          [] strategy = "testIds" -> el.id = <<>> /\ el.testid # <<>>
          [] strategy = "names" ->
                 el.id = <<>> /\ el.testid = <<>> /\ el.name # <<>>
          [] strategy = "roles" -> noAttr /\ hasRole
          [] strategy = "text" ->
                 /\ noAttr /\ ~hasRole
                 /\ trim(el.innerText) # <<>>
                 /\ Len(trim(el.innerText)) < Cutoff

\* the elements among the first k of d for which the strategy wins
RECURSIVE Winners(_, _, _)
Winners(d, k, strategy) ==
    IF k = 0 THEN <<>>
    ELSE IF Wins(d[k], strategy)
         THEN Append(Winners(d, k - 1, strategy), d[k])
         ELSE Winners(d, k - 1, strategy)

\* C1: every traversed element has appended its selector to at most one of
\* the five per-strategy arrays, the one of the first strategy in the order
\* id > data-testid > name > role > text whose condition holds; an element
\* with an id contributes `#<id>` to ids and nothing anywhere else.
C1_StrictPriority ==
    LET wi == Winners(doc, index, "ids")
        wt == Winners(doc, index, "testIds")
        wn == Winners(doc, index, "names")
    IN  /\ ids = [j \in 1..Len(wi) |-> <<"#">> \o wi[j].id]
        /\ testIds =
             [j \in 1..Len(wt) |->
                 <<"[","d","a","t","a","-","t","e","s","t","i","d","=","\"">>
                     \o wt[j].testid \o <<"\"","]">>]
        /\ names =
             [j \in 1..Len(wn) |->
                 toLowerCase(wn[j].tagName)
                     \o <<"[","n","a","m","e","=","\"">>
                     \o wn[j].name \o <<"\"","]">>]
        /\ Len(roles) = Len(Winners(doc, index, "roles"))
        /\ Len(text) = Len(Winners(doc, index, "text"))
        /\ Len(ids) + Len(testIds) + Len(names) + Len(roles) + Len(text)
               <= index

\* an element with an id, a data-testid, a name and a role has just been
\* traversed and only ids has grown
C1_Witness ==
    /\ pc = "loop" /\ index >= 1
    /\ doc[index].id # <<>> /\ doc[index].testid # <<>>
    /\ doc[index].name # <<>> /\ doc[index].role # <<>>
    /\ ids # <<>> /\ ids[Len(ids)] = <<"#">> \o doc[index].id
    /\ testIds = <<>> /\ names = <<>> /\ roles = <<>> /\ text = <<>>

AbsorbedFailures == {"goto", "evaluate", "typeError", "screenshot"}

\* C2: when goto, the evaluation or the screenshot fails, the call does not
\* reject; it returns the all-empty result (never what the traversal had
\* gathered) and browser.close has been called exactly once when it returns.
C2_FailSoft ==
    failed \in AbsorbedFailures =>
        /\ outcome # "rejected"
        /\ closeCalls <= 1
        /\ returned # <<>> => returned = <<EmptyResult>>
        /\ pc = "done" =>
               /\ outcome = "returned"
               /\ returned = <<EmptyResult>>
               /\ closeCalls = 1

\* the traversal threw after it had gathered selectors, and the call has
\* returned the empty result
C2_Witness ==
    /\ pc = "done" /\ failed = "typeError"
    /\ all # <<>> /\ pageObj # <<>>
    /\ returned = <<EmptyResult>> /\ closeCalls = 1

\* C3: on every exit path taken after the browser was launched, the browser
\* has been closed when the call settles, and the call does not reject.
C3_AlwaysReleased ==
    (pc = "done" /\ failed # "launch") =>
        /\ ~browserOpen
        /\ closeCalls = 1
        /\ outcome = "returned"

\* C4: in the value the evaluation resolves with, the values of `all` are
\* exactly those of the five per-strategy sequences together, and `all` has
\* no duplicate entry.
C4_UnionIdentity ==
    groups # <<>> =>
        LET g == groups[1] IN
        /\ Values(g.all) = Values(g.ids) \cup Values(g.testIds)
               \cup Values(g.names) \cup Values(g.roles) \cup Values(g.text)
        /\ NoDuplicates(g.all)
        /\ returned # <<>> /\ failed = "none" => returned = groups

\* several strategies contributed and a selector was produced twice
C4_Witness ==
    /\ groups # <<>>
    /\ Len(all) > Len(groups[1].all)
    /\ groups[1].ids # <<>> /\ groups[1].roles # <<>>
    /\ Len(groups[1].all) >= 2

\* the position of the first occurrence of x in arr
FirstIndex(arr, x) ==
    CHOOSE i \in 1..Len(arr) :
        arr[i] = x /\ \A j \in 1..(i - 1) : arr[j] # x

\* out is arr without its repeated entries, in order of first occurrence
FirstOccurrences(out, arr) ==
    /\ NoDuplicates(out)
    /\ Values(out) = Values(arr)
    /\ \A i, j \in 1..Len(out) :
           i < j => FirstIndex(arr, out[i]) < FirstIndex(arr, out[j])

\* C5: each of the six returned sequences is the sequence of the selectors
\* appended to it during the traversal, without repetitions and in order of
\* first occurrence.
C5_FirstOccurrenceOrder ==
    groups # <<>> =>
        LET g == groups[1] IN
        /\ FirstOccurrences(g.ids, ids)
        /\ FirstOccurrences(g.testIds, testIds)
        /\ FirstOccurrences(g.names, names)
        /\ FirstOccurrences(g.roles, roles)
        /\ FirstOccurrences(g.text, text)
        /\ FirstOccurrences(g.all, all)

\* two elements share an id, another id was traversed between them, and the
\* shared selector is kept once, before the other one
C5_Witness ==
    /\ groups # <<>>
    /\ Len(ids) = 3 /\ ids[1] = ids[3] /\ ids[1] # ids[2]
    /\ groups[1].ids = <<ids[1], ids[2]>>
    /\ groups[1].all = <<ids[1], ids[2]>>

\* the number of elements among the first k of d that produce a selector
RECURSIVE Producers(_, _)
Producers(d, k) ==
    IF k = 0 THEN 0
    ELSE Producers(d, k - 1)
             + (IF \E st \in {"ids", "testIds", "names", "roles", "text"} :
                       Wins(d[k], st)
                THEN 1 ELSE 0)

\* C6: after any prefix of the traversal the page object has one key per
\* element that produced a selector, no two of them equal, and the k-th key
\* maps to the selector of the k-th such element.
C6_Injective ==
    /\ Len(pageObj) = Producers(doc, index)
    /\ \A i, j \in 1..Len(pageObj) : pageObj[i][1] = pageObj[j][1] => i = j
    /\ Len(pageObj) = Len(all)
    /\ \A k \in 1..Len(pageObj) : pageObj[k][2] = all[k]

\* three elements whose key bases normalize to the same identifier, two of
\* them with the same selector, hold three keys
C6_Witness ==
    /\ pc = "loop" /\ index = 3 /\ Len(pageObj) = 3
    /\ \A k \in 1..3 :
           camel(keyCandidate(doc[k], classify(doc[k]).keyBase, k - 1))
               = pageObj[1][1]
    /\ pageObj[1][2] # pageObj[2][2]
    /\ pageObj[2][2] = pageObj[3][2]

\* C7: when the normalized identifier k of the element just traversed was
\* already a key, the key recorded for it is k followed by the smallest
\* n >= 1 for which k followed by n was not yet a key.
C7_SmallestSuffix ==
    (pc = "loop" /\ index >= 1 /\ sel # <<>>) =>
        LET prior == ownKeys(SubSeq(pageObj, 1, Len(pageObj) - 1))
            k == camel(keyCandidate(doc[index], keyBase, index - 1))
        IN  k \in prior =>
                \E n \in 1..Len(pageObj) :
                    /\ prop = k \o itoa(n)
                    /\ prop \notin prior
                    /\ \A m \in 1..(n - 1) : (k \o itoa(m)) \in prior

HasPrefix(s, p) == Len(p) <= Len(s) /\ SubSeq(s, 1, Len(p)) = p

\* C8: for the element just traversed, when it has no id, data-testid or
\* name: without a role, trimmed text of length 29 gives a text selector
\* and of length 30 or more gives none; with a role, a label of length 29
\* gives role=<role>[name="..."] and of length 30 or more gives role=<role>.
C8_StrictCutoff ==
    (pc = "loop" /\ index >= 1) =>
        LET el == doc[index]
            t == trim(el.innerText)
            role == IF el.role # <<>> THEN el.role ELSE defaultRole(el)
            label == IF el.ariaLabel # <<>> THEN el.ariaLabel ELSE t
        IN  (el.id = <<>> /\ el.testid = <<>> /\ el.name = <<>>) =>
                /\ (role = <<>> /\ Len(t) = 29) =>
                       /\ HasPrefix(sel, toLowerCase(el.tagName)
                              \o <<":","h","a","s","-","t","e","x","t","(","\"">>)
                       /\ text # <<>> /\ text[Len(text)] = sel
                /\ (role = <<>> /\ Len(t) >= 30) => sel = <<>>
                /\ (role # <<>> /\ Len(label) = 29) =>
                       /\ HasPrefix(sel, <<"r","o","l","e","=">> \o role
                              \o <<"[","n","a","m","e","=","\"">>)
                       /\ roles # <<>> /\ roles[Len(roles)] = sel
                /\ (role # <<>> /\ Len(label) >= 30) =>
                       /\ sel = <<"r","o","l","e","=">> \o role
                       /\ roles # <<>> /\ roles[Len(roles)] = sel

\* text of length 29, text of length 30 and a role label of length 30 have
\* been traversed: one text selector, then nothing, then the role alone
C8_Witness ==
    /\ pc = "loop" /\ index = 3
    /\ \A k \in 1..3 :
           doc[k].id = <<>> /\ doc[k].testid = <<>> /\ doc[k].name = <<>>
    /\ defaultRole(doc[1]) = <<>> /\ Len(trim(doc[1].innerText)) = 29
    /\ defaultRole(doc[2]) = <<>> /\ Len(trim(doc[2].innerText)) = 30
    /\ defaultRole(doc[3]) # <<>> /\ Len(trim(doc[3].innerText)) = 30
    /\ Len(text) = 1 /\ Len(all) = 2
    /\ roles = << <<"r","o","l","e","=">> \o defaultRole(doc[3]) >>

\* a role label of length 29 has been traversed and carries a name filter
C8_WitnessLabel ==
    /\ pc = "loop" /\ index >= 1
    /\ doc[index].id = <<>> /\ doc[index].testid = <<>>
    /\ doc[index].name = <<>>
    /\ Len(doc[index].ariaLabel) = 29
    /\ HasPrefix(sel, <<"r","o","l","e","=","l","i","n","k","[">>)

KeyMaps(po, key, value) == \E i \in 1..Len(po) : po[i] = <<key, value>>

\* C9: for the README's document (div#main, div[data-testid=header],
\* input[name=search], button "Submit") the result has ids = ["#main"],
\* testIds = ['[data-testid="header"]'], names = ['input[name="search"]'],
\* the button's selector in exactly one of roles and text, and the page
\* object maps main, header, searchInput and submit to those selectors.
C9_ReadmeExample ==
    (groups # <<>> /\ doc = ReadmeDoc) =>
        LET g == groups[1]
            main == <<"#","m","a","i","n">>
            header == <<"[","d","a","t","a","-","t","e","s","t","i","d","=",
                        "\"","h","e","a","d","e","r","\"","]">>
            search == <<"i","n","p","u","t","[","n","a","m","e","=","\"",
                        "s","e","a","r","c","h","\"","]">>
        IN  /\ g.ids = <<main>>
            /\ g.testIds = <<header>>
            /\ g.names = <<search>>
            /\ Len(g.roles) + Len(g.text) = 1
            /\ KeyMaps(g.pageObject, <<"m","a","i","n">>, main)
            /\ KeyMaps(g.pageObject, <<"h","e","a","d","e","r">>, header)
            /\ KeyMaps(g.pageObject,
                   <<"s","e","a","r","c","h","I","n","p","u","t">>, search)
            /\ KeyMaps(g.pageObject, <<"s","u","b","m","i","t">>,
                   (g.roles \o g.text)[1])

\* C10: when the loaded document has no element, the traversal does not
\* throw, the evaluation resolves with six empty sequences and an empty
\* page object, and that is what the call returns.
C10_EmptyDocument ==
    (Called("evaluate") /\ doc = <<>>) =>
        /\ failed # "typeError"
        /\ groups # <<>> => groups = <<EmptyResult>>
        /\ (pc = "done" /\ failed = "none") =>
               outcome = "returned" /\ returned = <<EmptyResult>>

\* the call has returned from an empty document without any failure
C10_Witness ==
    /\ pc = "done" /\ Called("evaluate") /\ doc = <<>> /\ failed = "none"
    /\ groups = <<EmptyResult>>
    /\ outcome = "returned" /\ returned = <<EmptyResult>>

\* the newline-free rendering the claims describe: every maximal run of
\* newlines of s becomes one space
CollapsedRuns(s) ==
    LET keep == {i \in 1..Len(s) : s[i] # "\n" \/ i = 1 \/ s[i - 1] # "\n"}
        nth(k) == CHOOSE i \in keep : Cardinality({j \in keep : j < i}) = k - 1
    IN  [k \in 1..Cardinality(keep) |->
            IF s[nth(k)] = "\n" THEN " " ELSE s[nth(k)]]

\* leading and trailing blanks removed
Stripped(s) ==
    LET solid == {i \in 1..Len(s) : s[i] \notin {" ", "\n", "\t"}} IN
    IF solid = {} THEN <<>>
    ELSE SubSeq(s, CHOOSE i \in solid : \A j \in solid : i <= j,
                   CHOOSE i \in solid : \A j \in solid : j <= i)

\* the text between the opening delimiter and the two closing characters
Content(s, open) == SubSeq(s, Len(open) + 1, Len(s) - 2)

TextOpen(el) ==
    toLowerCase(el.tagName) \o <<":","h","a","s","-","t","e","x","t","(","\"">>

RoleOpen(role) ==
    <<"r","o","l","e","=">> \o role \o <<"[","n","a","m","e","=","\"">>

RoleOf(el) == IF el.role # <<>> THEN el.role ELSE defaultRole(el)

LabelOf(el) ==
    IF el.ariaLabel # <<>> THEN el.ariaLabel ELSE Stripped(el.innerText)

\* the filter carried by the selector of the element just traversed, when
\* that selector is a text selector or a role selector with a name filter
HasFilter ==
    /\ pc = "loop" /\ index >= 1 /\ sel # <<>>
    /\ \/ text # <<>> /\ text[Len(text)] = sel
       \/ roles # <<>> /\ roles[Len(roles)] = sel
             /\ HasPrefix(sel, RoleOpen(RoleOf(doc[index])))

Filter ==
    IF text # <<>> /\ text[Len(text)] = sel
    THEN Content(sel, TextOpen(doc[index]))
    ELSE Content(sel, RoleOpen(RoleOf(doc[index])))

FilterSource ==
    IF text # <<>> /\ text[Len(text)] = sel
    THEN Stripped(doc[index].innerText)
    ELSE LabelOf(doc[index])

\* C11: the filter of every emitted text selector and named role selector
\* is the source text or label with each run of newlines replaced by one
\* space (and the ends stripped); it contains no newline, and normalizing
\* it again returns it unchanged.
C11_NewlinesCollapsed ==
    HasFilter =>
        /\ Filter = Stripped(CollapsedRuns(FilterSource))
        /\ \A i \in 1..Len(Filter) : Filter[i] # "\n"
        /\ trim(replaceNewlines(Filter)) = Filter

\* a text with a run of three newlines and a single newline has been
\* emitted with one space for each run
C11_Witness ==
    /\ HasFilter
    /\ text # <<>> /\ text[Len(text)] = sel
    /\ \E i \in 1..(Len(FilterSource) - 2) :
           FilterSource[i] = "\n" /\ FilterSource[i + 1] = "\n"
               /\ FilterSource[i + 2] = "\n"
    /\ Filter = <<"H","i"," ","b","i","g"," ","w","o","r","l","d">>

CallOrder ==
    <<"launch", "newPage", "goto", "evaluate", "screenshot", "close">>

Rank(op) == CHOOSE i \in 1..Len(CallOrder) : CallOrder[i] = op

\* C12: the collaborator operations of one call are invoked in the order
\* launch, newPage, goto, evaluate, screenshot, close, each at most once and
\* (but for close) right after its predecessor; the evaluation starts only
\* after a successful navigation, and close comes only once the evaluation
\* and the screenshot have completed or something has failed.
C12_Sequential ==
    /\ \A i, j \in 1..Len(calls) :
           i < j => Rank(calls[i]) < Rank(calls[j])
    /\ \A i \in 1..Len(calls) :
           calls[i] # "close" =>
               /\ Rank(calls[i]) = i
               /\ \A j \in 1..(i - 1) : calls[j] = CallOrder[j]
    /\ Called("evaluate") => Called("goto") /\ failed # "goto"
    /\ (index > 0 \/ groups # <<>>) => Called("evaluate")
    /\ Called("screenshot") => groups # <<>>
    /\ Called("close") =>
           /\ Called("goto")
           /\ \/ failed \in AbsorbedFailures
              \/ groups # <<>> /\ Called("screenshot")

\* a call in which nothing failed has invoked all six operations in order
C12_Witness ==
    /\ pc = "done" /\ failed = "none"
    /\ calls = CallOrder
    /\ index = 3 /\ groups # <<>>

\* the role table of the claim: tag and type attribute to implicit role
ImplicitRole(el) ==
    LET tag == toLowerCase(el.tagName)
        type == toLowerCase(el.type)
    IN  CASE tag = <<"a">> -> <<"l","i","n","k">>
          [] tag = <<"b","u","t","t","o","n">> -> <<"b","u","t","t","o","n">>
          [] tag = <<"s","e","l","e","c","t">> ->
                 <<"c","o","m","b","o","b","o","x">>
          [] tag = <<"o","p","t","i","o","n">> -> <<"o","p","t","i","o","n">>
          [] tag = <<"i","n","p","u","t">> ->
                 (CASE type = <<"c","h","e","c","k","b","o","x">> ->
                           <<"c","h","e","c","k","b","o","x">>
                    [] type = <<"r","a","d","i","o">> -> <<"r","a","d","i","o">>
                    [] type \in {<<"s","u","b","m","i","t">>,
                                 <<"b","u","t","t","o","n">>} ->
                           <<"b","u","t","t","o","n">>
                    [] OTHER -> <<"t","e","x","t","b","o","x">>)
          [] OTHER -> <<>>

NoAttr(el) == el.id = <<>> /\ el.testid = <<>> /\ el.name = <<>>

C14_TestAfterCollapse ==
    (pc = "loop" /\ index >= 1 /\ NoAttr(doc[index])
        /\ RoleOf(doc[index]) # <<>>) =>
        LET collapsed == Stripped(CollapsedRuns(LabelOf(doc[index]))) IN
        (collapsed # <<>> /\ Len(collapsed) < 30) =>
            sel = RoleOpen(RoleOf(doc[index])) \o collapsed \o <<"\"","]">>

\* C14 (amended): for the role strategy the 30-character test is made on
\* the label as taken, before its newlines are collapsed: a label of 30
\* characters or more yields role=<role> alone even when its collapsed form
\* is shorter than 30, and a non-empty label under 30 characters yields
\* role=<role>[name="<collapsed label>"].
C14_TestBeforeCollapse ==
    (pc = "loop" /\ index >= 1 /\ NoAttr(doc[index])
        /\ RoleOf(doc[index]) # <<>>) =>
        LET label == LabelOf(doc[index])
            collapsed == Stripped(CollapsedRuns(label))
        IN  /\ Len(label) >= 30 =>
                sel = <<"r","o","l","e","=">> \o RoleOf(doc[index])
            /\ (label # <<>> /\ Len(label) < 30) =>
                sel = RoleOpen(RoleOf(doc[index])) \o collapsed
                          \o <<"\"","]">>

\* a button whose label has 32 characters, 5 when collapsed, has been
\* traversed and got the role alone
C14_Witness ==
    /\ pc = "loop" /\ index >= 1 /\ NoAttr(doc[index])
    /\ Len(LabelOf(doc[index])) >= 30
    /\ Len(Stripped(CollapsedRuns(LabelOf(doc[index])))) = 5
    /\ sel = <<"r","o","l","e","=","b","u","t","t","o","n">>
    /\ roles # <<>> /\ roles[Len(roles)] = sel

\* the keys of a page object in the order its enumeration presents them
KeysOf(po) == [i \in 1..Len(po) |-> po[i][1]]

\* C15 as stated: the keys of the returned page object are enumerated in
\* the order in which the traversal produced them, numerals included.
C15_TraversalOrder ==
    (outcome = "returned" /\ failed = "none") =>
        KeysOf(returned[1].pageObject) = KeysOf(pageObj)

\* the value of a numeral of at most 9 digits
RECURSIVE Numeral(_)
Numeral(k) ==
    IF k = <<>> THEN 0
    ELSE 10 * Numeral(SubSeq(k, 1, Len(k) - 1))
             + (CHOOSE n \in 0..9 : DigitChars[n + 1] = k[Len(k)])

\* the decimal rendering of an integer, for keys of at most 9 characters
IsIndexKey(k) ==
    /\ k # <<>> /\ Len(k) <= 9
    /\ \A i \in 1..Len(k) : \E n \in 0..9 : DigitChars[n + 1] = k[i]
    /\ itoa(Numeral(k)) = k

Position(keys, k) == CHOOSE i \in 1..Len(keys) : keys[i] = k

\* C15 (amended): the returned page object has the entries the traversal
\* produced; its keys that are the decimal rendering of an integer are
\* enumerated first, in ascending numeric order, and its other keys follow
\* in the order in which the traversal produced them.
C15_IndexKeysFirst ==
    (outcome = "returned" /\ failed = "none") =>
        LET ret == returned[1].pageObject
            keys == KeysOf(ret)
            made == KeysOf(pageObj)
        IN  /\ Len(ret) = Len(pageObj)
            /\ {ret[i] : i \in 1..Len(ret)}
                   = {pageObj[i] : i \in 1..Len(pageObj)}
            /\ \A i, j \in 1..Len(keys) : i < j =>
                   /\ IsIndexKey(keys[j]) =>
                          /\ IsIndexKey(keys[i])
                          /\ Numeral(keys[i]) < Numeral(keys[j])
                   /\ ~IsIndexKey(keys[i]) =>
                          Position(made, keys[i]) < Position(made, keys[j])

\* a call has returned a page object whose keys main, 12 and 7 were produced
\* in that order and are enumerated as 7, 12, main
C15_Witness ==
    /\ outcome = "returned" /\ failed = "none"
    /\ KeysOf(pageObj) = << <<"m","a","i","n">>, <<"1","2">>, <<"7">> >>
    /\ KeysOf(returned[1].pageObject)
           = << <<"7">>, <<"1","2">>, <<"m","a","i","n">> >>

AsciiLettersAndDigits ==
    {Lowers[i] : i \in 1..26} \cup {Uppers[i] : i \in 1..26}
        \cup {DigitChars[i] : i \in 1..10}

\* C16: every key of the page object is a normalized camel-case identifier:
\* whatever the key base, also one that ends in or consists only of
\* non-alphanumeric characters, the key contains only ASCII letters and
\* digits.
C16_AlphanumericKeys ==
    \A i \in 1..Len(pageObj) :
        \A j \in 1..Len(pageObj[i][1]) :
            pageObj[i][1][j] \in AsciiLettersAndDigits

\* C17: no emitted selector carries an empty filter: the text of every
\* text selector and the name of every named role selector is non-empty,
\* and an element whose label or text is empty or only whitespace (a
\* whitespace-only aria-label included) gets role=<role> alone, or no
\* selector when it has no role.
C17_NoEmptyFilter ==
    /\ HasFilter => Filter # <<>>
    /\ (pc = "loop" /\ index >= 1 /\ NoAttr(doc[index])) =>
           LET el == doc[index] IN
           /\ (RoleOf(el) # <<>> /\ Stripped(LabelOf(el)) = <<>>) =>
                  sel = <<"r","o","l","e","=">> \o RoleOf(el)
           /\ (RoleOf(el) = <<>> /\ Stripped(el.innerText) = <<>>) =>
                  sel = <<>>

====
